---- MODULE Spec2Model ----
(***************************************************************************)
(* Model of the auction engine of jerrl10/auction-poc: the in-memory       *)
(* DataStore, the bid ladder, the proxy bidding computation, placeBid,     *)
(* retractBid, the auction lifecycle, the scheduler and the LockManager.   *)
(* All money is integer cents, all times are milliseconds.                 *)
(***************************************************************************)
EXTENDS Integers, Sequences, FiniteSets, TLC

VARIABLES
    auction,          \* DataStore.auctions: the auction record, or NoAuction
    bids,             \* DataStore.bids: the stored list (retracted included)
    now,              \* the wall clock (Date.now())
    lastEndingSoon,   \* SchedulerService.lastEndingSoonNotifications
    last,             \* the latest call: operation, arguments, outcome, events
    locks,            \* LockManager.locks: key -> NoLock or [acquiredAt, timeout]
    callers,          \* concurrent requests in flight (position, arguments)
    acquired          \* the callers in the order they acquired a lock

vars == <<auction, bids, now, lastEndingSoon, last, locks, callers, acquired>>

----------------------------------------------------------------------------
(* Program constants.                                                      *)

MAX_BID == 100000000
RETRACTION_WINDOW == 3600000
LockTimeout == 500
GracePeriod == 60000
MaxRetries == 3
RetryDelay == 100
NOTIFICATION_THROTTLE_MS == 30000
TestLockHold == 2000

----------------------------------------------------------------------------
(* Representation of null / undefined, and the sets inputs are drawn from. *)

Null == -1
Undefined == -2
NoAuction == [status |-> "NONE"]
NoUser == "null"

Seller == "S"
Bidders == {"A", "B"}
Users == Bidders \cup {Seller}          \* DataStore.users (seeded)
UnknownUser == "X"

\* the clock is sampled at creation, at the first auction's end (past the
\* retraction window) and past the fail-safe's grace period
EndT == 2 * RETRACTION_WINDOW
PastGraceT == EndT + GracePeriod + 1
TimePoints == {0, EndT, PastGraceT}

MaxRetractions == 1                     \* bound on the retracted bids
MaxBids == 3                            \* bound on the stored bid list

\* the bid requests clients send: [userId, amount, maxBid, autoBidStep].
\* A opens with a maximum, raises it, or bids directly; B answers with a
\* lower, an equal and a higher maximum, and with a step the route passes
\* on unvalidated; the seller and an unknown user try to bid too
Request(u, amount, maxBid, step) ==
    [userId |-> u, amount |-> amount, maxBid |-> maxBid, autoBidStep |-> step]
BidRequests ==
    { Request("A", 20000, 20000, Null), Request("A", 20500, 20500, Null),
      Request("A", 20000, Null, Null),
      Request("B", 12000, 12000, Null), Request("B", 20000, 20000, Null),
      Request("B", 20500, 20500, Null), Request("B", 20500, 20500, -5000),
      Request(Seller, 20000, 20000, Null), Request(UnknownUser, 20000, 20000, Null),
      Request("A", MAX_BID + 1, Null, Null) }
UpdateParams ==
    { [startingPrice |-> 10000, buyNowPrice |-> Undefined],
      [startingPrice |-> 30000, buyNowPrice |-> Undefined] }

\* an auction live from creation without reserve, and a scheduled one with
\* a reserve; both offer Buy Now
LiveParams ==
    [startingPrice |-> 10000, reservePrice |-> Null, buyNowPrice |-> 50000,
     startTime |-> 0, endTime |-> EndT, hasTimeLimit |-> TRUE]
ScheduledParams ==
    [startingPrice |-> 10000, reservePrice |-> 20000, buyNowPrice |-> 50000,
     startTime |-> EndT, endTime |-> PastGraceT, hasTimeLimit |-> TRUE]
CreateParams == {LiveParams, ScheduledParams}

\* concurrent callers: placeBid requests whose outcome depends on their
\* order, and the lock test endpoint
NumCallers == 2
ConcRequests ==
    { Request("A", 20000, 20000, Null), Request("B", 12000, 12000, Null),
      Request("B", 20500, 20500, Null),
      Request(Seller, 20000, 20000, Null), Request(UnknownUser, 20000, 20000, Null),
      Request("A", MAX_BID + 1, Null, Null) }
NoRequest == Request(NoUser, Null, Null, Null)

----------------------------------------------------------------------------
(* Generic helpers.                                                        *)

Min(a, b) == IF a < b THEN a ELSE b
Max(a, b) == IF a > b THEN a ELSE b

\* utils/currency.ts ensureValidCents: Math.round, on integer cents
ensureValidCents(amount) == amount

\* utils/bidIncrement.ts getBidIncrement: the first rule whose band holds
\* the price; the fallback 100 for a price in no band (a negative one)
getBidIncrement(currentPrice) ==
    IF currentPrice >= 0 /\ currentPrice < 100 THEN 5
    ELSE IF currentPrice >= 100 /\ currentPrice < 500 THEN 25
    ELSE IF currentPrice >= 500 /\ currentPrice < 1000 THEN 50
    ELSE IF currentPrice >= 1000 /\ currentPrice < 2500 THEN 100
    ELSE IF currentPrice >= 2500 /\ currentPrice < 5000 THEN 250
    ELSE IF currentPrice >= 5000 /\ currentPrice < 10000 THEN 500
    ELSE IF currentPrice >= 10000 /\ currentPrice < 25000 THEN 1000
    ELSE IF currentPrice >= 25000 /\ currentPrice < 50000 THEN 2500
    ELSE IF currentPrice >= 50000 /\ currentPrice < 100000 THEN 5000
    ELSE IF currentPrice >= 100000 /\ currentPrice < 250000 THEN 10000
    ELSE IF currentPrice >= 250000 /\ currentPrice < 500000 THEN 25000
    ELSE IF currentPrice >= 500000 THEN 50000
    ELSE 100

----------------------------------------------------------------------------
(* DataStore.                                                              *)

\* DataStore.getAuctionBids(auctionId, includeRetracted = false)
NotRetracted(b) == ~b.isRetracted
getBidsForAuction(bs) == SelectSeq(bs, NotRetracted)

\* the comparator of DataStore.addBid: amount DESC, then timestamp ASC;
\* Array.prototype.sort is stable, so an equal key keeps insertion order
SortsBefore(a, b) ==
    \/ a.amount > b.amount
    \/ a.amount = b.amount /\ a.timestamp <= b.timestamp

\* DataStore.addBid: clear every isWinning flag, push, sort
addBid(bs, bid) ==
    LET cleared == [i \in DOMAIN bs |-> [bs[i] EXCEPT !.isWinning = FALSE]]
        pos == Cardinality({i \in DOMAIN cleared : SortsBefore(cleared[i], bid)})
    IN  SubSeq(cleared, 1, pos) \o <<bid>> \o SubSeq(cleared, pos + 1, Len(cleared))

\* DataStore.updateBid: replace by id
updateBid(bs, bid) ==
    [i \in DOMAIN bs |-> IF bs[i].id = bid.id THEN bid ELSE bs[i]]

\* DataStore.getBid
HasBid(bs, bidId) == \E i \in DOMAIN bs : bs[i].id = bidId
getBid(bs, bidId) == bs[CHOOSE i \in DOMAIN bs : bs[i].id = bidId]

\* generateId('bid'): a fresh id; bids are never removed from the list
generateId(bs) == Len(bs) + 1

----------------------------------------------------------------------------
(* AuctionService helpers used by the bidding path.                        *)

\* AuctionService.canAcceptBids
canAcceptBids(a, t) ==
    a.status = "ACTIVE" /\ t >= a.startTime /\ t < a.endTime

\* AuctionService.updateAuctionStats
updateAuctionStats(a, newPrice) ==
    [a EXCEPT !.currentPrice = newPrice,
              !.bidCount = a.bidCount + 1,
              !.reserveMet = (a.reservePrice = Null \/ newPrice >= a.reservePrice)]

\* AuctionService.determineWinner
determineWinner(bs) ==
    LET live == getBidsForAuction(bs)
    IN  IF Len(live) = 0 THEN NoUser ELSE live[1].userId

----------------------------------------------------------------------------
(* ProxyBiddingService.calculateProxyBidAmount (the second-price engine).  *)

HasMaxBid(b) == b.maxBid # Null

\* competingMaxBids.reduce((highest, current) =>
\*     current.maxBid > highest.maxBid ? current : highest)
RECURSIVE ReduceHighest(_, _)
ReduceHighest(s, highest) ==
    IF s = <<>> THEN highest
    ELSE ReduceHighest(Tail(s),
                       IF Head(s).maxBid > highest.maxBid THEN Head(s) ELSE highest)

\* bids of the other users, in stored order
CompetingBids(bs, userId) ==
    LET NotOwn(b) == b.userId # userId
    IN  SelectSeq(getBidsForAuction(bs), NotOwn)

CompetingMaxBids(bs, userId) == SelectSeq(CompetingBids(bs, userId), HasMaxBid)

HighestCompetitor(bs, userId) ==
    LET cm == CompetingMaxBids(bs, userId)
    IN  ReduceHighest(Tail(cm), Head(cm))

\* customStep || getBidIncrement(auction.currentPrice): 0 and undefined
\* both fall through to the ladder
BidIncrementFor(a, customStep) ==
    IF customStep # Undefined /\ customStep # Null /\ customStep # 0
    THEN customStep
    ELSE getBidIncrement(a.currentPrice)

\* the reserve price check with a plausible slip: the user's max is not
\* compared with the reserve
ReservePriceCheckAnyMax(a, userMaxBid, userBidAmount) ==
    IF a.reservePrice # Null /\ a.reservePrice > 0 /\ userBidAmount < a.reservePrice
    THEN ensureValidCents(a.reservePrice)
    ELSE userBidAmount

\* RESERVE PRICE CHECK: the winner's max meets the reserve and the
\* second-price amount is below it: the amount jumps to the reserve
ReservePriceCheck(a, userMaxBid, userBidAmount) ==
    LET hasReservePrice == a.reservePrice # Null /\ a.reservePrice > 0
    IN  IF hasReservePrice /\ userMaxBid >= a.reservePrice
           /\ userBidAmount < a.reservePrice
        THEN ensureValidCents(a.reservePrice)
        ELSE userBidAmount

calculateProxyBidAmount(a, bs, userId, userMaxBid, customStep) ==
    LET bidIncrement == BidIncrementFor(a, customStep)
        competingBids == CompetingBids(bs, userId)
        competingMaxBids == CompetingMaxBids(bs, userId)
        minRequired == ensureValidCents(a.currentPrice + bidIncrement)
        actualBid == ensureValidCents(Min(userMaxBid, minRequired))
    IN  IF Len(competingBids) = 0 \/ Len(competingMaxBids) = 0
        THEN [actualBidAmount |-> actualBid,
              wouldWin |-> actualBid >= minRequired,
              isMaxBidReached |-> (actualBid = userMaxBid /\ actualBid < minRequired),
              competitorBids |-> <<>>]
        ELSE
          LET highestCompetitor == HighestCompetitor(bs, userId)
              formula == ensureValidCents(highestCompetitor.maxBid + bidIncrement)
              userBidAmount == ReservePriceCheck(a, userMaxBid, formula)
          IN  IF userMaxBid > highestCompetitor.maxBid
              THEN [actualBidAmount |-> userBidAmount,
                    wouldWin |-> TRUE,
                    isMaxBidReached |-> FALSE,
                    competitorBids |->
                        << [userId |-> highestCompetitor.userId,
                            amount |-> ensureValidCents(highestCompetitor.maxBid),
                            maxBid |-> ensureValidCents(highestCompetitor.maxBid)] >>]
              ELSE [actualBidAmount |-> ensureValidCents(userMaxBid),
                    wouldWin |-> FALSE,
                    isMaxBidReached |-> TRUE,
                    competitorBids |-> <<>>]

----------------------------------------------------------------------------
(* BiddingService.placeBid (the definition in force, the second one).      *)

\* BiddingService.isWinningBid: strictly above the first (highest) bid
isWinningBid(existingBids, amount) ==
    IF Len(existingBids) = 0 THEN TRUE
    ELSE amount > existingBids[1].amount

\* BiddingService.validateBidAmount with a plausible slip: the minimum
\* (current price plus one increment) is not enforced
validateBidAmountNoMinimum(a, amount) ==
    IF amount <= 0 THEN "VALIDATION_ERROR"
    ELSE IF amount > MAX_BID THEN "VALIDATION_ERROR"
    ELSE "OK"

\* BiddingService.validateBidAmount: "OK" or the error it throws
validateBidAmount(a, amount) ==
    IF amount <= 0 THEN "VALIDATION_ERROR"
    ELSE IF amount < a.currentPrice + getBidIncrement(a.currentPrice) THEN "BID_TOO_LOW"
    ELSE IF amount > MAX_BID THEN "VALIDATION_ERROR"
    ELSE "OK"

\* BiddingService.validateAuctionState with a plausible slip: only the
\* status is looked at
validateAuctionStateStatusOnly(a, t) ==
    IF a.status # "ACTIVE" THEN "INVALID_AUCTION_STATE" ELSE "OK"

\* BiddingService.validateAuctionState
validateAuctionState(a, t) ==
    IF ~canAcceptBids(a, t) THEN "INVALID_AUCTION_STATE"
    ELSE IF t < a.startTime THEN "AUCTION_NOT_STARTED"
    ELSE IF t >= a.endTime THEN "AUCTION_ENDED"
    ELSE "OK"

\* BiddingService.validateUser with a plausible slip: the owner check is
\* left out
validateUserExistsOnly(a, userId) ==
    IF userId \notin Users THEN "USER_NOT_FOUND" ELSE "OK"

\* BiddingService.validateUser
validateUser(a, userId) ==
    IF userId \notin Users THEN "USER_NOT_FOUND"
    ELSE IF a.createdBy = userId THEN "VALIDATION_ERROR"
    ELSE "OK"

NewBid(bs, userId, amount, maxBid, t, isWinning, isProxyBid, isMaxBidReached) ==
    [id |-> generateId(bs), userId |-> userId, amount |-> amount,
     maxBid |-> maxBid, timestamp |-> t, isWinning |-> isWinning,
     isProxyBid |-> isProxyBid, isRetracted |-> FALSE,
     isMaxBidReached |-> isMaxBidReached]

\* step 6 of placeBid: persist the competitor auto-bids, in order
RECURSIVE PlaceCompetitorBids(_, _, _, _)
PlaceCompetitorBids(st, competitorBids, t, placed) ==
    IF competitorBids = <<>> THEN [auction |-> st.auction, bids |-> st.bids, placed |-> placed]
    ELSE
      LET cb == Head(competitorBids)
          existingBids == getBidsForAuction(st.bids)
          compIsWinning == isWinningBid(existingBids, cb.amount)
          compBid == NewBid(st.bids, cb.userId, cb.amount, cb.maxBid, t,
                            compIsWinning, TRUE, TRUE)
          bs1 == addBid(st.bids, compBid)
          a1 == IF compIsWinning
                THEN updateAuctionStats(st.auction, cb.amount)
                ELSE [st.auction EXCEPT !.bidCount = st.auction.bidCount + 1]
      IN  PlaceCompetitorBids([auction |-> a1, bids |-> bs1], Tail(competitorBids),
                              t, Append(placed, compBid))

BidPlacedEvent(b) == [type |-> "BID_PLACED", bidId |-> b.id, userId |-> b.userId]

\* steps 14 and 15 of placeBid with a plausible slip: the user's bid is
\* announced before the competitor auto-bids
BidPlacedEventsUserFirst(placed, bid) ==
    <<BidPlacedEvent(bid)>> \o [i \in 1..Len(placed) |-> BidPlacedEvent(placed[i])]

\* steps 14 and 15 of placeBid: broadcastBidPlaced for each competitor
\* auto-bid, then for the user's bid
BidPlacedEvents(placed, bid) ==
    [i \in 1..Len(placed) |-> BidPlacedEvent(placed[i])] \o <<BidPlacedEvent(bid)>>

Rejected(a, bs, err) ==
    [ok |-> FALSE, err |-> err, auction |-> a, bids |-> bs,
     isWinning |-> FALSE, bidId |-> 0, events |-> <<>>]

\* step 13 of placeBid with a plausible slip: any bid removes Buy Now
shouldRemoveBuyNowAnyBid(a) == a.buyNowPrice # Null

\* step 13 of placeBid, Buy Now removal: without reserve on the first bid,
\* with a reserve once the reserve is met
shouldRemoveBuyNow(a) ==
    LET hasReservePrice == a.reservePrice # Null /\ a.reservePrice > 0
    IN  a.buyNowPrice # Null /\ (~hasReservePrice \/ a.reserveMet)

\* the function placeBid runs under the auction's lock
PlaceBidBody(a, bs, t, userId, inputAmount, maxBid, autoBidStep) ==
    IF a = NoAuction THEN Rejected(a, bs, "AUCTION_NOT_FOUND")
    ELSE IF validateAuctionState(a, t) # "OK" THEN Rejected(a, bs, validateAuctionState(a, t))
    ELSE IF validateUser(a, userId) # "OK" THEN Rejected(a, bs, validateUser(a, userId))
    ELSE
      LET isProxyBid == maxBid # Undefined /\ maxBid # Null
          proxyResult == calculateProxyBidAmount(a, bs, userId, maxBid, autoBidStep)
          actualBidAmount == IF isProxyBid THEN proxyResult.actualBidAmount ELSE inputAmount
          isMaxBidReached == IF isProxyBid THEN proxyResult.isMaxBidReached ELSE FALSE
          competitorBids == IF isProxyBid THEN proxyResult.competitorBids ELSE <<>>
      IN  IF validateBidAmount(a, actualBidAmount) # "OK"
          THEN Rejected(a, bs, validateBidAmount(a, actualBidAmount))
          ELSE
            LET afterComp == PlaceCompetitorBids([auction |-> a, bids |-> bs],
                                                 competitorBids, t, <<>>)
                existingBids == getBidsForAuction(afterComp.bids)
                NotOwn(b) == b.userId # userId
                competingBids == SelectSeq(existingBids, NotOwn)
                isWinning == isWinningBid(competingBids, actualBidAmount)
                bid == NewBid(afterComp.bids, userId, actualBidAmount,
                              IF isProxyBid THEN maxBid ELSE Null, t, isWinning,
                              isProxyBid /\ actualBidAmount # inputAmount,
                              isMaxBidReached)
                bs2 == addBid(afterComp.bids, bid)
                a2 == IF isWinning
                      THEN updateAuctionStats(afterComp.auction, actualBidAmount)
                      ELSE [afterComp.auction EXCEPT
                               !.bidCount = afterComp.auction.bidCount + 1]
                a3 == IF shouldRemoveBuyNow(a2) THEN [a2 EXCEPT !.buyNowPrice = Null] ELSE a2
            IN  [ok |-> TRUE, err |-> "OK", auction |-> a3, bids |-> bs2,
                 isWinning |-> isWinning, bidId |-> bid.id,
                 events |-> BidPlacedEvents(afterComp.placed, bid)]

----------------------------------------------------------------------------
(* BidRetractionService.retractBid.                                        *)

\* BidRetractionService.validateRetractionEligibility: both branches (more
\* or less than 12 hours to the end) apply the same one-hour window
validateRetractionEligibility(bid, a, t) ==
    IF t - bid.timestamp > RETRACTION_WINDOW
    THEN "BID_RETRACTION_TIME_EXPIRED" ELSE "OK"

\* step 8 of retractBid with a plausible slip: isWinning is left as it was
retractedBidStillWinning(bid) == [bid EXCEPT !.isRetracted = TRUE]

\* step 8 of retractBid: the bid marked retracted and no longer winning
retractedBid(bid) == [bid EXCEPT !.isRetracted = TRUE, !.isWinning = FALSE]

RetractError(a, bs, t, bidId, userId) ==
    IF ~HasBid(bs, bidId) THEN "BID_NOT_FOUND"
    ELSE IF getBid(bs, bidId).userId # userId THEN "BID_RETRACTION_NOT_ALLOWED"
    ELSE IF getBid(bs, bidId).isRetracted THEN "BID_ALREADY_RETRACTED"
    ELSE IF a = NoAuction THEN "AUCTION_NOT_FOUND"
    ELSE IF a.status = "ENDED" THEN "BID_RETRACTION_NOT_ALLOWED"
    ELSE IF validateRetractionEligibility(getBid(bs, bidId), a, t) # "OK"
         THEN "BID_RETRACTION_TIME_EXPIRED"
    ELSE IF ~getBid(bs, bidId).isWinning THEN "BID_RETRACTION_NOT_ALLOWED"
    ELSE "OK"

RetractBidBody(a, bs, t, bidId, userId) ==
    IF RetractError(a, bs, t, bidId, userId) # "OK"
    THEN [ok |-> FALSE, err |-> RetractError(a, bs, t, bidId, userId),
          auction |-> a, bids |-> bs, events |-> <<>>]
    ELSE
      LET bid == getBid(bs, bidId)
          bs1 == updateBid(bs, retractedBid(bid))
          Others(b) == ~b.isRetracted /\ b.id # bidId
          nonRetractedBids == SelectSeq(bs1, Others)
      IN  IF Len(nonRetractedBids) > 0
          THEN LET previousWinner == [nonRetractedBids[1] EXCEPT !.isWinning = TRUE]
               IN  [ok |-> TRUE, err |-> "OK",
                    auction |-> updateAuctionStats(a, previousWinner.amount),
                    bids |-> updateBid(bs1, previousWinner),
                    events |-> << [type |-> "BID_RETRACTED", bidId |-> bidId,
                                   userId |-> userId] >>]
          ELSE [ok |-> TRUE, err |-> "OK",
                auction |-> [a EXCEPT !.currentPrice = a.startingPrice,
                                      !.bidCount = 0,
                                      !.reserveMet = (a.reservePrice = Null
                                          \/ a.startingPrice >= a.reservePrice)],
                bids |-> bs1,
                events |-> << [type |-> "BID_RETRACTED", bidId |-> bidId,
                               userId |-> userId] >>]

----------------------------------------------------------------------------
(* AuctionService: creation and lifecycle.                                 *)

CreateError(p, t) ==
    IF p.startingPrice < 0 THEN "VALIDATION_ERROR"
    ELSE IF p.startTime < t - 5000 THEN "INVALID_AUCTION_STATE"
    ELSE IF p.endTime <= p.startTime THEN "INVALID_AUCTION_STATE"
    ELSE IF p.buyNowPrice # Null /\ p.buyNowPrice < p.startingPrice THEN "VALIDATION_ERROR"
    ELSE IF p.reservePrice # Null /\ p.reservePrice < p.startingPrice THEN "VALIDATION_ERROR"
    ELSE IF p.reservePrice # Null /\ p.buyNowPrice # Null
            /\ p.reservePrice >= p.buyNowPrice THEN "VALIDATION_ERROR"
    ELSE "OK"

createAuction(p, t) ==
    [status |-> IF p.startTime <= t THEN "ACTIVE" ELSE "PENDING",
     startingPrice |-> p.startingPrice,
     currentPrice |-> p.startingPrice,
     reservePrice |-> p.reservePrice,
     reserveMet |-> (p.reservePrice = Null \/ p.startingPrice >= p.reservePrice),
     buyNowPrice |-> p.buyNowPrice,
     startTime |-> p.startTime,
     endTime |-> p.endTime,
     hasTimeLimit |-> p.hasTimeLimit,
     createdBy |-> Seller,
     winnerId |-> NoUser,
     bidCount |-> 0]

UpdateError(a, p) ==
    IF a = NoAuction THEN "AUCTION_NOT_FOUND"
    ELSE IF a.status = "ENDED" THEN "INVALID_AUCTION_STATE"
    ELSE IF a.status = "ACTIVE" /\ a.bidCount > 0 THEN "INVALID_AUCTION_STATE"
    ELSE IF p.startingPrice # Undefined /\ p.startingPrice < 0 THEN "VALIDATION_ERROR"
    ELSE IF p.buyNowPrice # Undefined /\ p.buyNowPrice # Null
            /\ p.buyNowPrice < (IF p.startingPrice # Undefined
                                THEN p.startingPrice ELSE a.startingPrice)
         THEN "VALIDATION_ERROR"
    ELSE "OK"

updateAuction(a, p) ==
    LET a1 == IF p.startingPrice # Undefined
              THEN [a EXCEPT !.startingPrice = p.startingPrice,
                             !.currentPrice = p.startingPrice]
              ELSE a
    IN  IF p.buyNowPrice # Undefined THEN [a1 EXCEPT !.buyNowPrice = p.buyNowPrice] ELSE a1

SelectWinnerError(a, bs, winnerId) ==
    LET Own(b) == b.userId = winnerId
    IN  IF a = NoAuction THEN "AUCTION_NOT_FOUND"
        ELSE IF a.status = "ENDED" THEN "INVALID_AUCTION_STATE"
        ELSE IF Len(SelectSeq(getBidsForAuction(bs), Own)) = 0 THEN "VALIDATION_ERROR"
        ELSE "OK"

selectWinner(a, bs, winnerId) ==
    LET Own(b) == b.userId = winnerId
        winningBid == SelectSeq(getBidsForAuction(bs), Own)[1]
    IN  [a EXCEPT !.status = "ENDED",
                  !.winnerId = winnerId,
                  !.currentPrice = Max(a.currentPrice, winningBid.amount)]

StartError(a, t) ==
    IF a = NoAuction THEN "AUCTION_NOT_FOUND"
    ELSE IF a.status # "PENDING" THEN "INVALID_AUCTION_STATE"
    ELSE IF a.startTime > t THEN "INVALID_AUCTION_STATE"
    ELSE "OK"

startAuction(a) == [a EXCEPT !.status = "ACTIVE"]

EndError(a) ==
    IF a = NoAuction THEN "AUCTION_NOT_FOUND"
    ELSE IF a.status \in {"ENDED", "UNSOLD"} THEN "OK"
    ELSE IF a.status # "ACTIVE" THEN "INVALID_AUCTION_STATE"
    ELSE "OK"

\* AuctionService.endAuction with a plausible slip: no early return for an
\* auction that has already ended
endAuctionRecomputed(a, bs) ==
    LET reserveMet == a.reservePrice = Null \/ a.currentPrice >= a.reservePrice
    IN  IF ~reserveMet
        THEN [a EXCEPT !.status = "UNSOLD", !.winnerId = NoUser]
        ELSE [a EXCEPT !.status = "ENDED", !.winnerId = determineWinner(bs)]

endAuction(a, bs) ==
    IF a.status \in {"ENDED", "UNSOLD"} THEN a
    ELSE LET reserveMet == a.reservePrice = Null \/ a.currentPrice >= a.reservePrice
         IN  IF ~reserveMet
             THEN [a EXCEPT !.status = "UNSOLD", !.winnerId = NoUser]
             ELSE [a EXCEPT !.status = "ENDED", !.winnerId = determineWinner(bs)]

----------------------------------------------------------------------------
(* SchedulerService.                                                       *)

shouldStartAuction(a, t) == a.status = "PENDING" /\ t >= a.startTime
\* the end test with a plausible slip: strictly after the end time
shouldEndAuctionStrictlyAfter(a, t) == a.status = "ACTIVE" /\ t > a.endTime

shouldEndAuction(a, t) == a.status = "ACTIVE" /\ t >= a.endTime
getTimeRemaining(a, t) == Max(0, (a.endTime - t) \div 1000)
isEndingSoon(a, t) == getTimeRemaining(a, t) > 0 /\ getTimeRemaining(a, t) <= 300

----------------------------------------------------------------------------
(* The record of the latest successful call.  A rejected call throws       *)
(* before it writes anything and leaves every variable as it was.          *)

Done(op, user, amount, maxBid, step, bidId, isWinning, events) ==
    [op |-> op, ok |-> TRUE, err |-> "OK", user |-> user, amount |-> amount,
     maxBid |-> maxBid, step |-> step, bidId |-> bidId,
     isWinning |-> isWinning, events |-> events]

\* LockManager.locks: a key without entry reads as NoLock
NoLock == [isLocked |-> FALSE]
AuctionKey == "a1"
OtherKey == "a2"
Keys == {AuctionKey, OtherKey}

LockVarsUnchanged == UNCHANGED <<locks, callers, acquired>>

----------------------------------------------------------------------------
(* The operations, one call at a time.                                     *)

\* POST /auctions
CreateAuction(p) ==
    /\ auction = NoAuction
    /\ IF CreateError(p, now) # "OK"
       THEN UNCHANGED <<auction, last>>
       ELSE /\ auction' = createAuction(p, now)
            /\ last' = Done("createAuction", Seller, Null, Null, Null, 0, FALSE,
                            << [type |-> "AUCTION_CREATED"] >>)
    /\ UNCHANGED <<bids, now, lastEndingSoon>>
    /\ LockVarsUnchanged

\* POST /bids
PlaceBid(userId, inputAmount, maxBid, autoBidStep) ==
    /\ LET r == PlaceBidBody(auction, bids, now, userId, inputAmount, maxBid, autoBidStep)
       IN  /\ Len(r.bids) <= MaxBids
           /\ auction' = r.auction
           /\ bids' = r.bids
           /\ last' = IF r.ok
                      THEN Done("placeBid", userId, inputAmount, maxBid, autoBidStep,
                                r.bidId, r.isWinning, r.events)
                      ELSE last
    /\ UNCHANGED <<now, lastEndingSoon>>
    /\ LockVarsUnchanged

\* POST /bids/{id}/retract
RetractBid(bidId, userId) ==
    /\ LET r == RetractBidBody(auction, bids, now, bidId, userId)
       IN  /\ Len(r.bids) - Len(getBidsForAuction(r.bids)) <= MaxRetractions
           /\ auction' = r.auction
           /\ bids' = r.bids
           /\ last' = IF r.ok
                      THEN Done("retractBid", userId, Null, Null, Null, bidId, FALSE, r.events)
                      ELSE last
    /\ UNCHANGED <<now, lastEndingSoon>>
    /\ LockVarsUnchanged

\* POST /auctions/{id}/select-winner
SelectWinner(winnerId) ==
    /\ IF SelectWinnerError(auction, bids, winnerId) # "OK"
       THEN UNCHANGED <<auction, last>>
       ELSE /\ auction' = selectWinner(auction, bids, winnerId)
            /\ last' = Done("selectWinner", winnerId, Null, Null, Null, 0, FALSE, <<>>)
    /\ UNCHANGED <<bids, now, lastEndingSoon>>
    /\ LockVarsUnchanged

\* PUT /auctions/{id}
UpdateAuction(p) ==
    /\ IF UpdateError(auction, p) # "OK"
       THEN UNCHANGED <<auction, last>>
       ELSE /\ auction' = updateAuction(auction, p)
            /\ last' = Done("updateAuction", Seller, p.startingPrice, p.buyNowPrice,
                            Null, 0, FALSE, << [type |-> "AUCTION_UPDATED"] >>)
    /\ UNCHANGED <<bids, now, lastEndingSoon>>
    /\ LockVarsUnchanged

\* POST /auctions/{id}/start
StartAuction ==
    /\ IF StartError(auction, now) # "OK"
       THEN UNCHANGED <<auction, last>>
       ELSE /\ auction' = startAuction(auction)
            /\ last' = Done("startAuction", NoUser, Null, Null, Null, 0, FALSE,
                            << [type |-> "AUCTION_STARTED"] >>)
    /\ UNCHANGED <<bids, now, lastEndingSoon>>
    /\ LockVarsUnchanged

\* POST /auctions/{id}/end
EndAuction ==
    /\ IF EndError(auction) # "OK"
       THEN UNCHANGED <<auction, last>>
       ELSE /\ auction' = endAuction(auction, bids)
            /\ last' = Done("endAuction", NoUser, Null, Null, Null, 0, FALSE,
                            << [type |-> "AUCTION_ENDED"] >>)
    /\ UNCHANGED <<bids, now, lastEndingSoon>>
    /\ LockVarsUnchanged

\* SchedulerService.checkAuctions: one tick of the scheduler
SchedulerTick ==
    /\ auction # NoAuction
    /\ IF shouldStartAuction(auction, now)
       THEN /\ auction' = startAuction(auction)
            /\ last' = Done("schedulerTick", NoUser, Null, Null, Null, 0, FALSE,
                            << [type |-> "AUCTION_STARTED"] >>)
            /\ UNCHANGED lastEndingSoon
       ELSE IF shouldEndAuction(auction, now)
       THEN /\ auction' = endAuction(auction, bids)
            /\ lastEndingSoon' = 0
            /\ last' = Done("schedulerTick", NoUser, Null, Null, Null, 0, FALSE,
                            << [type |-> "AUCTION_ENDED"] >>)
       ELSE IF auction.status = "ACTIVE" /\ isEndingSoon(auction, now)
               /\ now - lastEndingSoon >= NOTIFICATION_THROTTLE_MS
       THEN /\ lastEndingSoon' = now
            /\ last' = Done("schedulerTick", NoUser, Null, Null, Null, 0, FALSE,
                            << [type |-> "AUCTION_ENDING_SOON"] >>)
            /\ UNCHANGED auction
       ELSE UNCHANGED <<auction, lastEndingSoon, last>>
    /\ UNCHANGED <<bids, now>>
    /\ LockVarsUnchanged

\* the fail-safe test with a plausible slip: the grace period counts as past
\* at its last millisecond
pastGracePeriodInclusive(a, t) == t - a.endTime >= GracePeriod

\* runFailSafe: timeSinceEnd > gracePeriod
pastGracePeriod(a, t) == t - a.endTime > GracePeriod

\* SchedulerService.runFailSafe
RunFailSafe ==
    /\ auction # NoAuction
    /\ IF auction.status = "ACTIVE" /\ pastGracePeriod(auction, now)
       THEN /\ auction' = endAuction(auction, bids)
            /\ lastEndingSoon' = 0
            /\ last' = Done("runFailSafe", NoUser, Null, Null, Null, 0, FALSE,
                            << [type |-> "AUCTION_ENDED"] >>)
       ELSE UNCHANGED <<auction, lastEndingSoon, last>>
    /\ UNCHANGED <<bids, now>>
    /\ LockVarsUnchanged

\* the clock advances
Tick ==
    /\ auction # NoAuction /\ auction.status \in {"PENDING", "ACTIVE"}
    /\ \E t \in TimePoints : t > now /\ now' = t
    /\ UNCHANGED <<auction, bids, lastEndingSoon, last>>
    /\ LockVarsUnchanged

Init ==
    /\ auction = NoAuction
    /\ bids = <<>>
    /\ now = 0
    /\ lastEndingSoon = 0
    /\ last = Done("init", NoUser, Null, Null, Null, 0, FALSE, <<>>)
    /\ locks = [k \in Keys |-> NoLock]
    /\ callers = <<>>
    /\ acquired = <<>>

Next ==
    \/ \E p \in CreateParams : CreateAuction(p)
    \/ \E q \in BidRequests : PlaceBid(q.userId, q.amount, q.maxBid, q.autoBidStep)
    \/ \E id \in 1..MaxBids, u \in Bidders : RetractBid(id, u)
    \/ \E u \in Bidders : SelectWinner(u)
    \/ \E p \in UpdateParams : UpdateAuction(p)
    \/ StartAuction
    \/ EndAuction
    \/ SchedulerTick
    \/ RunFailSafe
    \/ Tick

Spec == Init /\ [][Next]_vars

----------------------------------------------------------------------------
(* Proxy bidding against a reserve: live auctions that start at 1 000 with  *)
(* a reserve above, at and below the second-price amount, and proxy bids    *)
(* with max bids below and above the reserve; and the auction of scenario   *)
(* S2, which starts at 1 with a reserve no bid reaches, up to its end.      *)

ReservePrices == {15000, 20100, 30000}
ReserveParams ==
    { [startingPrice |-> 1000, reservePrice |-> r, buyNowPrice |-> Null,
       startTime |-> 0, endTime |-> EndT, hasTimeLimit |-> TRUE] : r \in ReservePrices }
    \cup { [startingPrice |-> 1, reservePrice |-> 100000, buyNowPrice |-> Null,
             startTime |-> 0, endTime |-> EndT, hasTimeLimit |-> TRUE] }
    \cup { [startingPrice |-> 1000, reservePrice |-> 30000, buyNowPrice |-> 80000,
             startTime |-> 0, endTime |-> EndT, hasTimeLimit |-> TRUE] }
ReserveRequests ==
    { Request("A", 20000, 20000, Null), Request("A", 45000, 45000, Null),
      Request("B", 25000, 25000, Null), Request("B", 40000, 40000, Null),
      Request("B", 25000, 25000, 500),
      Request("A", 30000, 30000, Null), Request("B", 80000, 80000, Null),
      Request("B", 25000, MAX_BID + 1, Null),
      Request("A", 80000, Null, Null) }

InitReserve ==
    /\ auction \in {createAuction(p, 0) : p \in ReserveParams}
    /\ bids = <<>>
    /\ now = 0
    /\ lastEndingSoon = 0
    /\ last = Done("createAuction", Seller, Null, Null, Null, 0, FALSE,
                   << [type |-> "AUCTION_CREATED"] >>)
    /\ locks = [k \in Keys |-> NoLock]
    /\ callers = <<>>
    /\ acquired = <<>>

NextReserve ==
    \/ \E q \in ReserveRequests : PlaceBid(q.userId, q.amount, q.maxBid, q.autoBidStep)
    \/ EndAuction

SpecReserve == InitReserve /\ [][NextReserve]_vars

----------------------------------------------------------------------------
(* Concurrent placeBid calls.  placeBid awaits withLock; withLock awaits    *)
(* acquireLock (which runs to its end when called), then awaits fn (the     *)
(* body of placeBid, which holds no await and so runs as one step), then    *)
(* releases in `finally`.  Between those awaits any other caller may run.   *)
(* Timers (the retry sleep, the test endpoint's release) fire only when no  *)
(* continuation is pending, at or after their due time.                     *)

\* LockManager.acquireLock with a plausible slip: the held-lock check lost
acquireLockUnchecked(lk, key, t) ==
    [locks |-> [lk EXCEPT ![key] = [isLocked |-> TRUE, acquiredAt |-> t,
                                    timeout |-> LockTimeout]],
     ok |-> TRUE]

\* LockManager.acquireLock: false while a lock is held and not expired
acquireLock(lk, key, t) ==
    IF lk[key].isLocked /\ t - lk[key].acquiredAt < lk[key].timeout
    THEN [locks |-> lk, ok |-> FALSE]
    ELSE [locks |-> [lk EXCEPT ![key] = [isLocked |-> TRUE, acquiredAt |-> t,
                                         timeout |-> LockTimeout]],
          ok |-> TRUE]

\* LockManager.releaseLock with a plausible slip: the lock entry is kept
releaseLockSkipped(lk, key) == lk

\* LockManager.releaseLock: deletes whatever lock the key has
releaseLock(lk, key) == [lk EXCEPT ![key] = NoLock]

\* a call in flight: the key it locks, how long its protected function
\* takes (0: no await inside, as in placeBid) and when the call arrives
NewCaller(kind, req) ==
    [kind |-> kind, req |-> req, pc |-> "start", attempts |-> 0, wake |-> 0,
     ranAt |-> 0, ok |-> FALSE, key |-> AuctionKey, dur |-> 0]

\* a call of withLock(key, fn) arriving at `arrive`, fn taking `dur`
LockCaller(key, dur, arrive) ==
    [NewCaller("withLock", NoRequest) EXCEPT !.key = key, !.dur = dur,
                                             !.wake = arrive]

\* a continuation is queued behind an await
MicrotasksPending == \E i \in DOMAIN callers : callers[i].pc \in {"acquired", "ran"}

\* the wait before the next attempt with a plausible slip: the backoff the
\* comment announces ("Exponential backoff")
retryWaitExponential(attempts) == RetryDelay * 2 ^ attempts

\* withLock: sleep(retryDelay * attempts)
retryWait(attempts) == RetryDelay * attempts

\* withLock: one round of the retry loop, from the call or from the sleep
CallAcquire(i) ==
    /\ callers[i].kind \in {"placeBid", "withLock"}
    /\ \/ callers[i].pc = "start" /\ now >= callers[i].wake
       \/ callers[i].pc = "sleep" /\ now >= callers[i].wake /\ ~MicrotasksPending
    /\ LET r == acquireLock(locks, callers[i].key, now)
           attempts == callers[i].attempts + 1
       IN  /\ locks' = r.locks
           /\ IF r.ok
              THEN /\ callers' = [callers EXCEPT ![i].pc = "acquired"]
                   /\ acquired' = Append(acquired, i)
              ELSE /\ callers' = [callers EXCEPT
                          ![i].attempts = attempts,
                          ![i].pc = IF attempts < MaxRetries THEN "sleep" ELSE "locked",
                          ![i].wake = now + retryWait(attempts)]
                   /\ UNCHANGED acquired
    /\ UNCHANGED <<auction, bids, now, lastEndingSoon, last>>

\* withLock: await fn(), the body of placeBid
RunFn(i) ==
    /\ callers[i].kind = "placeBid"
    /\ callers[i].pc = "acquired"
    /\ LET q == callers[i].req
           r == PlaceBidBody(auction, bids, now, q.userId, q.amount, q.maxBid,
                             q.autoBidStep)
       IN  /\ auction' = r.auction
           /\ bids' = r.bids
           /\ last' = IF r.ok
                      THEN Done("placeBid", q.userId, q.amount, q.maxBid,
                                q.autoBidStep, r.bidId, r.isWinning, r.events)
                      ELSE last
           /\ callers' = [callers EXCEPT ![i].pc = "ran", ![i].ranAt = now,
                                         ![i].ok = r.ok]
    /\ UNCHANGED <<now, lastEndingSoon, locks, acquired>>

\* withLock: finally { releaseLock }
ReleaseLock(i) ==
    /\ callers[i].pc = "ran"
    /\ locks' = releaseLock(locks, callers[i].key)
    /\ callers' = [callers EXCEPT ![i].pc = "done"]
    /\ UNCHANGED <<auction, bids, now, lastEndingSoon, last, acquired>>

\* POST /test/lock/{auctionId}: take the lock and set the release timer
TestLock(i) ==
    /\ callers[i].kind = "testLock" /\ callers[i].pc = "start"
    /\ LET r == acquireLock(locks, AuctionKey, now)
       IN  /\ locks' = r.locks
           /\ callers' = [callers EXCEPT
                  ![i].pc = IF r.ok THEN "holding" ELSE "done",
                  ![i].wake = IF r.ok THEN now + TestLockHold ELSE 0,
                  ![i].ok = r.ok]
    /\ UNCHANGED <<auction, bids, now, lastEndingSoon, last, acquired>>

\* the timer of POST /test/lock fires
TestLockRelease(i) ==
    /\ callers[i].kind = "testLock" /\ callers[i].pc = "holding"
    /\ now >= callers[i].wake /\ ~MicrotasksPending
    /\ locks' = releaseLock(locks, AuctionKey)
    /\ callers' = [callers EXCEPT ![i].pc = "done"]
    /\ UNCHANGED <<auction, bids, now, lastEndingSoon, last, acquired>>

\* withLock: await fn() for a protected function that awaits a timer
FnStart(i) ==
    /\ callers[i].kind = "withLock"
    /\ callers[i].pc = "acquired"
    /\ callers' = [callers EXCEPT ![i].pc = "running", ![i].ranAt = now,
                                  ![i].wake = now + callers[i].dur]
    /\ UNCHANGED <<auction, bids, now, lastEndingSoon, last, locks, acquired>>

\* the protected function returns
FnEnd(i) ==
    /\ callers[i].kind = "withLock"
    /\ callers[i].pc = "running"
    /\ now >= callers[i].wake /\ ~MicrotasksPending
    /\ callers' = [callers EXCEPT ![i].pc = "ran", ![i].ok = TRUE]
    /\ UNCHANGED <<auction, bids, now, lastEndingSoon, last, locks, acquired>>

\* the states in which a call waits for the clock: not yet arrived, in the
\* retry sleep, holding the test lock, inside a protected function
Waiting == {"start", "sleep", "holding", "running"}

\* time passes up to the next timer
AdvanceClock ==
    /\ ~MicrotasksPending
    /\ \* a protected function takes the time it takes: it returns when due
       \A j \in DOMAIN callers :
          callers[j].pc = "running" => callers[j].wake > now
    /\ \E i \in DOMAIN callers :
          /\ callers[i].pc \in Waiting
          /\ callers[i].wake > now
          /\ \A j \in DOMAIN callers :
                (callers[j].pc \in Waiting /\ callers[j].wake > now)
                   => callers[i].wake <= callers[j].wake
          /\ now' = callers[i].wake
    /\ UNCHANGED <<auction, bids, lastEndingSoon, last, locks, callers, acquired>>

\* the auction the concurrent calls name: live, not yet started, or unknown
ConcAuctions(t) ==
    {createAuction(LiveParams, t), createAuction(ScheduledParams, t), NoAuction}

InitConc ==
    /\ auction \in ConcAuctions(0)
    /\ bids = <<>>
    /\ now = 0
    /\ lastEndingSoon = 0
    /\ last = Done("createAuction", Seller, Null, Null, Null, 0, FALSE,
                   << [type |-> "AUCTION_CREATED"] >>)
    /\ locks = [k \in Keys |-> NoLock]
    /\ callers \in [1..NumCallers ->
                       {NewCaller("placeBid", q) : q \in ConcRequests}
                          \cup {NewCaller("testLock", NoRequest)}]
    /\ acquired = <<>>

NextConc ==
    \/ \E i \in DOMAIN callers : CallAcquire(i)
    \/ \E i \in DOMAIN callers : RunFn(i)
    \/ \E i \in DOMAIN callers : ReleaseLock(i)
    \/ \E i \in DOMAIN callers : TestLock(i)
    \/ \E i \in DOMAIN callers : TestLockRelease(i)
    \/ AdvanceClock

SpecConc == InitConc /\ [][NextConc]_vars

----------------------------------------------------------------------------
(* LockManager on its own: calls of withLock on two keys whose protected    *)
(* functions return at once or run for twice the lock timeout, arriving     *)
(* together or one lock timeout apart.                                      *)

FnDurations == {0, 2 * LockTimeout}
Arrivals == {0, LockTimeout}
LockCallers ==
    {LockCaller(k, d, t) : k \in Keys, d \in FnDurations, t \in Arrivals}

InitLock ==
    /\ auction = NoAuction
    /\ bids = <<>>
    /\ now = 0
    /\ lastEndingSoon = 0
    /\ last = Done("init", NoUser, Null, Null, Null, 0, FALSE, <<>>)
    /\ locks = [k \in Keys |-> NoLock]
    /\ callers \in [1..NumCallers -> LockCallers]
    /\ acquired = <<>>

NextLock ==
    \/ \E i \in DOMAIN callers : CallAcquire(i)
    \/ \E i \in DOMAIN callers : FnStart(i)
    \/ \E i \in DOMAIN callers : FnEnd(i)
    \/ \E i \in DOMAIN callers : ReleaseLock(i)
    \/ AdvanceClock

SpecLock == InitLock /\ [][NextLock]_vars

----------------------------------------------------------------------------
(* The claims.  A step is an accepted placeBid when it replaces `last` by   *)
(* the record of a placeBid call: bid ids are fresh, so no two accepted     *)
(* calls leave the same record.                                            *)

\* C1: every auction with at least one non-retracted bid has exactly one
\* bid with isWinning = TRUE, and an auction with no non-retracted bid has
\* none, after any sequence of placeBid, retractBid, selectWinner, endAuction
C1_ExactlyOneWinningBid ==
    auction # NoAuction =>
        LET winning == {i \in DOMAIN bids : bids[i].isWinning}
        IN  IF Len(getBidsForAuction(bids)) > 0
            THEN Cardinality(winning) = 1
            ELSE winning = {}

\* C2: currentPrice is the amount of the non-retracted bid marked isWinning
\* when there is one, and startingPrice when there is none
C2_PriceIsWinningAmount ==
    auction # NoAuction =>
        LET winning == {i \in DOMAIN bids : bids[i].isWinning /\ ~bids[i].isRetracted}
        IN  IF winning # {}
            THEN \A i \in winning : auction.currentPrice = bids[i].amount
            ELSE auction.currentPrice = auction.startingPrice

\* C3: concurrent placeBid calls on one auction leave the bid list and the
\* auction record that the calls leave when run one at a time in the order
\* they acquired the lock (each at the time it ran), and no two callers are
\* between acquiring and releasing the lock at once
C3_SerialInLockOrder ==
    LET RECURSIVE SerialRun(_, _)
        SerialRun(order, st) ==
            IF order = <<>> THEN st
            ELSE LET c == callers[Head(order)]
                     r == PlaceBidBody(st.auction, st.bids, c.ranAt, c.req.userId,
                                       c.req.amount, c.req.maxBid,
                                       c.req.autoBidStep)
                 IN  SerialRun(Tail(order),
                               [auction |-> r.auction, bids |-> r.bids])
        Ran(i) == callers[i].pc \in {"ran", "done"}
        \* the auction the calls started from: only a live one is ever changed
        start == IF auction # NoAuction /\ auction.status = "ACTIVE"
                 THEN createAuction(LiveParams, 0) ELSE auction
        s == SerialRun(SelectSeq(acquired, Ran), [auction |-> start, bids |-> <<>>])
    IN  /\ auction = s.auction
        /\ bids = s.bids
        /\ Cardinality({i \in DOMAIN callers :
                           callers[i].pc \in {"acquired", "ran"}}) <= 1

\* two calls were in flight at once, one had to retry, both were accepted
C3_Witness ==
    \E i, j \in DOMAIN callers :
        /\ i # j
        /\ callers[i].pc = "done" /\ callers[i].ok /\ callers[i].kind = "placeBid"
        /\ callers[j].pc = "done" /\ callers[j].ok /\ callers[j].kind = "placeBid"
        /\ callers[j].attempts >= 1
        /\ callers[i].ranAt = 0
        /\ Len(bids) >= 2

\* C4: on a live auction without reserve whose bids are all proxy bids of
\* two or more bidders, the leader is the bidder with the highest max (the
\* earlier one on a tie) and currentPrice is
\* min(leader's max, second-highest max + increment(second-highest max))
C4_SecondPriceLeader ==
    LET bidders == {bids[i].userId : i \in DOMAIN bids}
        MaxOf(u) == CHOOSE m \in {bids[i].maxBid : i \in DOMAIN bids} :
                       /\ \E i \in DOMAIN bids : bids[i].userId = u /\ bids[i].maxBid = m
                       /\ \A i \in DOMAIN bids : bids[i].userId = u => bids[i].maxBid <= m
        FirstAt(u) == CHOOSE k \in 1..Len(bids) :
                       /\ \E i \in DOMAIN bids :
                             bids[i].userId = u /\ bids[i].maxBid = MaxOf(u) /\ bids[i].id = k
                       /\ \A i \in DOMAIN bids :
                             bids[i].userId = u /\ bids[i].maxBid = MaxOf(u) => bids[i].id >= k
        Leads(u) == \A v \in bidders \ {u} :
                       \/ MaxOf(u) > MaxOf(v)
                       \/ MaxOf(u) = MaxOf(v) /\ FirstAt(u) < FirstAt(v)
        leader == CHOOSE u \in bidders : Leads(u)
        second == CHOOSE m \in {MaxOf(v) : v \in bidders \ {leader}} :
                       \A v \in bidders \ {leader} : MaxOf(v) <= m
    IN  ( /\ auction # NoAuction
          /\ auction.status = "ACTIVE"
          /\ auction.reservePrice = Null
          /\ \A i \in DOMAIN bids : bids[i].maxBid # Null /\ ~bids[i].isRetracted
          /\ Cardinality(bidders) >= 2 )
        => /\ \E i \in DOMAIN bids : bids[i].isWinning /\ bids[i].userId = leader
           /\ auction.currentPrice
                = Min(MaxOf(leader), second + getBidIncrement(second))

\* C5: an accepted placeBid whose maxBid is above the highest competing max
\* H.maxBid (no reserve jump applying) persists one competitor auto-bid of
\* H.userId at H.maxBid, then the user's bid at H.maxBid + inc (inc the
\* autoBidStep when given, else increment(currentPrice before the bid));
\* the user's bid is the winning bid and currentPrice is H.maxBid + inc
C5_HigherMaxOutbids ==
    [][ LET u == last'.user
            H == HighestCompetitor(bids, u)
            inc == IF last'.step # Null THEN last'.step
                   ELSE getBidIncrement(auction.currentPrice)
            n == Len(bids)
        IN  ( /\ last' # last /\ last'.op = "placeBid" /\ last'.maxBid # Null
              /\ Len(CompetingMaxBids(bids, u)) > 0
              /\ last'.maxBid > H.maxBid
              /\ ~( auction.reservePrice # Null
                    /\ last'.maxBid >= auction.reservePrice
                    /\ H.maxBid + inc < auction.reservePrice ) )
            => /\ Len(bids') = n + 2
               /\ getBid(bids', n + 1).userId = H.userId
               /\ getBid(bids', n + 1).amount = H.maxBid
               /\ getBid(bids', n + 2).userId = u
               /\ getBid(bids', n + 2).amount = H.maxBid + inc
               /\ \A i \in DOMAIN bids' : bids'[i].isWinning <=> bids'[i].id = n + 2
               /\ auction'.currentPrice = H.maxBid + inc ]_vars

\* C6: an accepted placeBid whose maxBid is below the highest competing max
\* loses: the bid is stored at amount = maxBid with isWinning = FALSE, the
\* call returns isWinning = FALSE, no competitor auto-bid is recorded and
\* the bidder who held the winning bid still holds it
C6_LowerMaxLoses ==
    [][ LET u == last'.user
            H == HighestCompetitor(bids, u)
        IN  ( /\ last' # last /\ last'.op = "placeBid" /\ last'.maxBid # Null
              /\ Len(CompetingMaxBids(bids, u)) > 0
              /\ last'.maxBid < H.maxBid )
            => /\ Len(bids') = Len(bids) + 1
               /\ getBid(bids', last'.bidId).amount = last'.maxBid
               /\ ~getBid(bids', last'.bidId).isWinning
               /\ ~last'.isWinning
               /\ \A i \in DOMAIN bids : bids[i].isWinning =>
                     \E j \in DOMAIN bids' :
                        bids'[j].isWinning /\ bids'[j].userId = bids[i].userId ]_vars

\* C7: an accepted proxy bid whose maxBid equals the highest competing max
\* leaves the winning bid with the bidder who placed that max first, and
\* leaves currentPrice as it was
C7_TieKeepsEarlierBidder ==
    [][ LET u == last'.user
            H == HighestCompetitor(bids, u)
        IN  ( /\ last' # last /\ last'.op = "placeBid" /\ last'.maxBid # Null
              /\ Len(CompetingMaxBids(bids, u)) > 0
              /\ last'.maxBid = H.maxBid )
            => /\ \E j \in DOMAIN bids' :
                     bids'[j].isWinning /\ bids'[j].userId = H.userId
               /\ auction'.currentPrice = auction.currentPrice ]_vars

\* C8: when the holder of the winning bid places a proxy bid with a higher
\* maxBid on an auction that accepts bids, the call is accepted, that user
\* still leads and currentPrice is unchanged, with or without competitors
C8_LeaderRaisesMax ==
    \A q \in BidRequests :
        LET r == PlaceBidBody(auction, bids, now, q.userId, q.amount, q.maxBid,
                              q.autoBidStep)
        IN  ( /\ auction # NoAuction
              /\ validateAuctionState(auction, now) = "OK"
              /\ q.maxBid # Null
              /\ \E i \in DOMAIN bids :
                    /\ bids[i].userId = q.userId
                    /\ bids[i].isWinning /\ ~bids[i].isRetracted
                    /\ bids[i].maxBid # Null
              /\ \A i \in DOMAIN bids :
                    bids[i].userId = q.userId => bids[i].maxBid < q.maxBid )
            => /\ r.ok
               /\ \E j \in DOMAIN r.bids :
                     r.bids[j].isWinning /\ r.bids[j].userId = q.userId
               /\ r.auction.currentPrice = auction.currentPrice

\* C9: no stored bid that carries a maxBid has an amount above that maxBid
C9_AmountWithinMaxBid ==
    \A i \in DOMAIN bids : bids[i].maxBid # Null => bids[i].amount <= bids[i].maxBid

\* C10: once the status is ENDED or UNSOLD no operation changes the status,
\* currentPrice, winnerId or the bids (flags included)
C10_TerminalIsAbsorbing ==
    [][ (auction # NoAuction /\ auction.status \in {"ENDED", "UNSOLD"})
        => /\ auction'.status = auction.status
           /\ auction'.currentPrice = auction.currentPrice
           /\ auction'.winnerId = auction.winnerId
           /\ bids' = bids ]_vars

\* C11: endAuction on an ACTIVE auction sets status ENDED when the reserve
\* is met (or there is none) and at least one non-retracted bid exists, and
\* sets status UNSOLD with winnerId null otherwise (so with no bids: UNSOLD)
C11_EndAuctionOutcome ==
    [][ ( /\ auction # NoAuction /\ auction.status = "ACTIVE"
          /\ auction'.status \in {"ENDED", "UNSOLD"}
          /\ last'.op \in {"endAuction", "schedulerTick", "runFailSafe"} )
        => LET reserveOk == auction.reservePrice = Null
                                \/ auction.currentPrice >= auction.reservePrice
               sold == reserveOk /\ Len(getBidsForAuction(bids)) > 0
           IN  /\ sold => auction'.status = "ENDED"
               /\ ~sold => auction'.status = "UNSOLD" /\ auction'.winnerId = NoUser ]_vars

\* C12: a placeBid call that fails (auction or user not found, auction not
\* accepting bids, self-bid, bid too low, amount above the ceiling, lock
\* busy) stores no bid, leaves the auction record as it was, emits no event
\* and does not leave the auction's lock held
C12_FailedBidLeavesNoTrace ==
    [][ \A i \in DOMAIN callers :
          /\ \* the body threw
             ( callers[i].pc = "acquired" /\ callers'[i].pc = "ran" /\ ~callers'[i].ok )
                => auction' = auction /\ bids' = bids /\ last' = last
          /\ \* the finally block of a call whose body threw
             ( callers[i].pc = "ran" /\ callers'[i].pc = "done" /\ ~callers[i].ok )
                => /\ auction' = auction /\ bids' = bids /\ last' = last
                   /\ ~locks'[AuctionKey].isLocked
          /\ \* the lock stayed busy through every retry
             ( callers[i].pc # "locked" /\ callers'[i].pc = "locked" )
                => /\ auction' = auction /\ bids' = bids /\ last' = last
                   /\ locks' = locks ]_vars

\* a call was rejected inside the lock after another call was accepted; both
\* are over, the rejected one left nothing and the lock is free
C12_Witness ==
    \E i, j \in DOMAIN callers :
        /\ callers[i].kind = "placeBid" /\ callers[i].pc = "done" /\ ~callers[i].ok
        /\ callers[j].kind = "placeBid" /\ callers[j].pc = "done" /\ callers[j].ok
        /\ Len(bids) = 1
        /\ ~locks[AuctionKey].isLocked

\* C13: placeBid is accepted only when the status is ACTIVE and
\* startTime <= now < endTime; at now = endTime, and on an auction still
\* ACTIVE after endTime because the scheduler has not ended it yet, every
\* bid is rejected and nothing changes
C13_BidsOnlyWhileOpen ==
    \A q \in BidRequests :
        LET r == PlaceBidBody(auction, bids, now, q.userId, q.amount, q.maxBid,
                              q.autoBidStep)
        IN  /\ r.ok => /\ auction # NoAuction
                       /\ auction.status = "ACTIVE"
                       /\ auction.startTime <= now
                       /\ now < auction.endTime
            /\ ~r.ok => r.auction = auction /\ r.bids = bids /\ r.events = <<>>

\* the auction took a bid, the clock reached endTime, the scheduler has not
\* run: the auction is still ACTIVE and every bid is rejected
C13_Witness ==
    /\ auction # NoAuction
    /\ auction.status = "ACTIVE"
    /\ now = auction.endTime
    /\ Len(bids) >= 1
    /\ \A q \in BidRequests :
          ~PlaceBidBody(auction, bids, now, q.userId, q.amount, q.maxBid,
                        q.autoBidStep).ok

C15_ReserveMetMatchesPrice ==
    auction # NoAuction =>
        ( auction.reserveMet
            <=> (auction.reservePrice = Null
                   \/ auction.currentPrice >= auction.reservePrice) )

\* C16: after an accepted placeBid, buyNowPrice is null when the auction has
\* no reserve; with a reserve it is null when reserveMet is true after the
\* bid and is what it was when the reserve is still unmet
C16_BuyNowRemoval ==
    [][ ( last' # last /\ last'.op = "placeBid" )
        => IF auction.reservePrice = Null
           THEN auction'.buyNowPrice = Null
           ELSE IF auction'.reserveMet
                THEN auction'.buyNowPrice = Null
                ELSE auction'.buyNowPrice = auction.buyNowPrice ]_vars

\* a bid was accepted below the reserve and Buy Now is still offered
C16_Witness ==
    /\ auction # NoAuction /\ auction.reservePrice # Null
    /\ last.op = "placeBid" /\ Len(bids) >= 1
    /\ ~auction.reserveMet
    /\ auction.buyNowPrice # Null

\* C17: when a bidder takes the lead from the holder of the winning bid and
\* then retracts that winning bid, the earlier holder leads again and
\* currentPrice is the amount that holder's bid had before it was outbid
\* (S6: A leads at 11 000, B outbids, B retracts: A leads at 11 000)
C17_RetractionRestoresLeader ==
    \A q \in BidRequests : \A i \in DOMAIN bids :
        LET r == PlaceBidBody(auction, bids, now, q.userId, q.amount, q.maxBid,
                              q.autoBidStep)
            t == RetractBidBody(r.auction, r.bids, now, r.bidId, q.userId)
        IN  ( /\ auction # NoAuction
              /\ bids[i].isWinning /\ ~bids[i].isRetracted
              /\ bids[i].userId # q.userId
              /\ bids[i].amount = auction.currentPrice
              /\ r.ok /\ r.isWinning
              /\ t.ok )
            => /\ \E j \in DOMAIN t.bids :
                     /\ t.bids[j].isWinning /\ ~t.bids[j].isRetracted
                     /\ t.bids[j].userId = bids[i].userId
               /\ t.auction.currentPrice = bids[i].amount
               /\ getBid(t.bids, r.bidId).isRetracted

\* C18: a successful retractBid marks the bid retracted and not winning; the
\* first of the other non-retracted bids in (amount DESC, timestamp ASC)
\* order becomes the winning bid, currentPrice its amount, reserveMet
\* recomputed; with no other non-retracted bid currentPrice is startingPrice,
\* bidCount 0 and reserveMet (reservePrice null or startingPrice >=
\* reservePrice); no other field of the auction and no other bid changes
C18_RetractionRecomputes ==
    [][ ( last' # last /\ last'.op = "retractBid" )
        => LET x == last'.bidId
               others == {b \in {bids[i] : i \in DOMAIN bids} :
                             ~b.isRetracted /\ b.id # x}
               First(l) == \A o \in others :
                              \/ l.amount > o.amount
                              \/ l.amount = o.amount /\ l.timestamp <= o.timestamp
               R == auction.reservePrice
           IN  /\ getBid(bids', x) = [getBid(bids, x) EXCEPT !.isRetracted = TRUE,
                                                             !.isWinning = FALSE]
               /\ Len(bids') = Len(bids)
               /\ IF others # {}
                  THEN \E l \in others :
                         /\ First(l)
                         /\ getBid(bids', l.id) = [l EXCEPT !.isWinning = TRUE]
                         /\ \A o \in others \ {l} : getBid(bids', o.id) = o
                         /\ auction' = [auction EXCEPT
                                !.currentPrice = l.amount,
                                !.reserveMet = (R = Null \/ l.amount >= R)]
                  ELSE /\ auction' = [auction EXCEPT
                                !.currentPrice = auction.startingPrice,
                                !.bidCount = 0,
                                !.reserveMet = (R = Null \/ auction.startingPrice >= R)]
               /\ \A i \in DOMAIN bids :
                     bids[i].isRetracted => getBid(bids', bids[i].id) = bids[i] ]_vars

\* C19: retractBid succeeds only if the bid exists, belongs to the
\* requesting user, is not retracted yet, its auction is neither ENDED nor
\* UNSOLD, the bid is winning and now - bid.timestamp <= 1 hour; a call that
\* fails changes no bid and no auction
C19_RetractionEligibility ==
    \A id \in 1..(Len(bids) + 1), u \in Bidders :
        LET t == RetractBidBody(auction, bids, now, id, u)
        IN  /\ t.ok => /\ HasBid(bids, id)
                       /\ getBid(bids, id).userId = u
                       /\ ~getBid(bids, id).isRetracted
                       /\ auction.status \notin {"ENDED", "UNSOLD"}
                       /\ getBid(bids, id).isWinning
                       /\ now - getBid(bids, id).timestamp <= RETRACTION_WINDOW
            /\ ~t.ok => t.auction = auction /\ t.bids = bids

C21_BidCountIsStoredBids ==
    auction # NoAuction => auction.bidCount = Len(bids)

\* C22: scenario S2: on an auction with startingPrice 1 and reservePrice
\* 100 000 the proxy bids A max 30 000 then B max 80 000 leave currentPrice
\* 32 500, and ending the auction gives status UNSOLD with winnerId null
C22_ScenarioS2 ==
    ( /\ auction # NoAuction
      /\ auction.startingPrice = 1 /\ auction.reservePrice = 100000
      /\ Len(bids) \in 2..3
      /\ getBid(bids, 1).userId = "A" /\ getBid(bids, 1).maxBid = 30000
      /\ getBid(bids, Len(bids)).userId = "B"
      /\ getBid(bids, Len(bids)).maxBid = 80000 )
    => /\ auction.currentPrice = 32500
       /\ auction.status # "ENDED"
       /\ auction.status = "UNSOLD" => auction.winnerId = NoUser

\* C23: for any key at most one protected function of withLock is executing
\* at any time, however long it runs; locks on distinct keys never block
\* each other
C23_OneBodyPerKey ==
    \A k \in Keys :
        Cardinality({i \in DOMAIN callers :
                        callers[i].key = k /\ callers[i].pc = "running"}) <= 1

\* C23 (amended): two protected functions on one key execute at once only
\* after a protected function on that key has run for the lock timeout or
\* longer (its lock expired); an acquisition fails only while the lock of
\* its own key is held
C23_OneBodyPerKeyWithinTimeout ==
    [][ /\ \A i, j \in DOMAIN callers' :
              ( /\ i # j /\ callers'[i].key = callers'[j].key
                /\ callers'[i].pc = "running" /\ callers'[j].pc = "running" )
              => \E c \in DOMAIN callers' :
                    /\ callers'[c].key = callers'[i].key
                    /\ callers'[c].pc \in {"running", "ran", "done"}
                    /\ callers'[c].dur >= LockTimeout
                    /\ now' - callers'[c].ranAt >= LockTimeout
        /\ \A i \in DOMAIN callers :
              callers'[i].attempts > callers[i].attempts
                 => locks[callers[i].key].isLocked ]_vars

\* one call's function is executing and a call on the same key was refused
C23_Witness ==
    \E i, j \in DOMAIN callers :
        /\ i # j /\ callers[i].key = callers[j].key
        /\ callers[i].pc = "running"
        /\ callers[j].pc = "sleep" /\ callers[j].attempts >= 1

----------------------------------------------------------------------------
(* The scheduler against a finer clock: the instants around the five       *)
(* minutes before an auction's end, around the end and around the end of   *)
(* the grace period; a live auction, a scheduled one and a live one        *)
(* created with hasTimeLimit = false and an explicit endTime.              *)

EndingSoonMs == 300000                  \* isEndingSoon: 300 seconds
OpenEndedParams == [LiveParams EXCEPT !.hasTimeLimit = FALSE]
SchedulerParams == {LiveParams, ScheduledParams, OpenEndedParams}
SchedulerRequests ==
    { Request("A", 20000, 20000, Null), Request("B", 12000, 12000, Null) }
SchedulerTimePoints ==
    { 0, EndT - EndingSoonMs - 1000, EndT - EndingSoonMs - 500, EndT - EndingSoonMs,
      EndT - EndingSoonMs + 10000, EndT - EndingSoonMs + NOTIFICATION_THROTTLE_MS,
      EndT - 500, EndT, EndT + GracePeriod, PastGraceT,
      PastGraceT + GracePeriod, PastGraceT + GracePeriod + 1 }

\* the clock advances to a later instant
ClockStep ==
    /\ \E t \in SchedulerTimePoints : t > now /\ now' = t
    /\ UNCHANGED <<auction, bids, lastEndingSoon, last>>
    /\ LockVarsUnchanged

InitScheduler ==
    /\ auction \in {createAuction(p, 0) : p \in SchedulerParams}
    /\ bids = <<>>
    /\ now = 0
    /\ lastEndingSoon = 0
    /\ last = Done("createAuction", Seller, Null, Null, Null, 0, FALSE,
                   << [type |-> "AUCTION_CREATED"] >>)
    /\ locks = [k \in Keys |-> NoLock]
    /\ callers = <<>>
    /\ acquired = <<>>

NextScheduler ==
    \/ \E q \in SchedulerRequests : PlaceBid(q.userId, q.amount, q.maxBid, q.autoBidStep)
    \/ SchedulerTick
    \/ RunFailSafe
    \/ ClockStep

SpecScheduler == InitScheduler /\ [][NextScheduler]_vars

----------------------------------------------------------------------------
(* The operations that take no lock, next to calls that do.  The auction   *)
(* is due to start; callers place bids through withLock or hold the lock   *)
(* through the lock test endpoint, while startAuction, endAuction,         *)
(* selectWinner and retractBid are called from other requests.             *)

UnlockedRequests ==
    { Request("A", 20000, 20000, Null), Request("B", 20500, 20500, Null) }

InitUnlocked ==
    /\ auction = createAuction(ScheduledParams, 0)
    /\ bids = <<>>
    /\ now = ScheduledParams.startTime
    /\ lastEndingSoon = 0
    /\ last = Done("createAuction", Seller, Null, Null, Null, 0, FALSE,
                   << [type |-> "AUCTION_CREATED"] >>)
    /\ locks = [k \in Keys |-> NoLock]
    /\ callers \in [1..NumCallers ->
                       {NewCaller("placeBid", q) : q \in UnlockedRequests}
                          \cup {NewCaller("testLock", NoRequest)}]
    /\ acquired = <<>>

NextUnlocked ==
    \/ \E i \in DOMAIN callers : CallAcquire(i)
    \/ \E i \in DOMAIN callers : RunFn(i)
    \/ \E i \in DOMAIN callers : ReleaseLock(i)
    \/ \E i \in DOMAIN callers : TestLock(i)
    \/ \E i \in DOMAIN callers : TestLockRelease(i)
    \/ AdvanceClock
    \/ ~MicrotasksPending /\ StartAuction
    \/ ~MicrotasksPending /\ EndAuction
    \/ ~MicrotasksPending /\ \E u \in Bidders : SelectWinner(u)
    \/ ~MicrotasksPending /\ \E id \in 1..MaxBids, u \in Bidders : RetractBid(id, u)

SpecUnlocked == InitUnlocked /\ [][NextUnlocked]_vars

----------------------------------------------------------------------------
(* The scheduler keeps ticking: start() runs checkAuctions at once and     *)
(* then on every interval, so a tick that has work to do is not postponed  *)
(* forever.  Nothing is assumed of the clients or of the clock.            *)

SpecFair == Init /\ [][Next]_vars /\ WF_vars(SchedulerTick)

C26_PriceMonotoneWhileActive ==
    [][ (/\ auction # NoAuction /\ auction.status = "ACTIVE"
         /\ ~(last' # last /\ last'.op = "retractBid"))
        => auction'.currentPrice >= auction.currentPrice ]_vars

\* C26 amended: while the auction is ACTIVE its currentPrice never decreases
\* across placeBid, selectWinner or the scheduler; an updateAuction, which
\* is accepted on an ACTIVE auction only when bidCount is 0, sets
\* currentPrice to the startingPrice it is given, lower or higher
C26_PriceMonotoneExceptReset ==
    [][ (auction # NoAuction /\ auction.status = "ACTIVE")
        => /\ ~(last' # last /\ last'.op \in {"retractBid", "updateAuction"})
                => auction'.currentPrice >= auction.currentPrice
           /\ (last' # last /\ last'.op = "updateAuction")
                => /\ auction.bidCount = 0
                   /\ last'.amount # Undefined
                        => auction'.currentPrice = last'.amount ]_vars

\* a proxy bid that lost to the leader's maximum has raised the price of a
\* live auction above its starting price
C26_Witness ==
    /\ auction # NoAuction /\ auction.status = "ACTIVE"
    /\ last.op = "placeBid" /\ ~last.isWinning
    /\ Len(bids) >= 2
    /\ auction.currentPrice > auction.startingPrice

\* C27: updateAuction succeeds only on a PENDING auction or on an ACTIVE one
\* with bidCount 0; in every other state (ACTIVE with bids, ENDED, UNSOLD)
\* it fails and changes nothing
C27_UpdateOnlyBeforeBids ==
    [][ (last' # last /\ last'.op = "updateAuction")
        => \/ auction.status = "PENDING"
           \/ auction.status = "ACTIVE" /\ auction.bidCount = 0 ]_vars

\* C28: in every reachable state an auction that has both a reservePrice
\* and a buyNowPrice satisfies startingPrice <= reservePrice < buyNowPrice
C28_PriceOrdering ==
    (/\ auction # NoAuction
     /\ auction.reservePrice # Null /\ auction.buyNowPrice # Null)
    => /\ auction.startingPrice <= auction.reservePrice
       /\ auction.reservePrice < auction.buyNowPrice

\* C29: every persisted monetary amount (the auction's startingPrice,
\* currentPrice, reservePrice and buyNowPrice; every bid's amount and
\* maxBid, competitor auto-bids included) is an integer from 0 to
\* 100 000 000, in every reachable state
C29_AmountsInRange ==
    LET InRange(x) == x \in 0..MAX_BID
    IN  /\ auction # NoAuction
            => /\ InRange(auction.startingPrice)
               /\ InRange(auction.currentPrice)
               /\ auction.reservePrice # Null => InRange(auction.reservePrice)
               /\ auction.buyNowPrice # Null => InRange(auction.buyNowPrice)
        /\ \A i \in DOMAIN bids :
               /\ InRange(bids[i].amount)
               /\ bids[i].maxBid # Null => InRange(bids[i].maxBid)

\* C30: no stored bid has the userId of the auction's creator or of a user
\* that does not exist; a placeBid by the creator or by an unknown user is
\* rejected, and a competitor auto-bid is recorded only for a user who
\* already holds a bid on the auction
C30_BiddersAreEligible ==
    [][ /\ \A i \in DOMAIN bids' :
             /\ bids'[i].userId \in Users
             /\ bids'[i].userId # auction'.createdBy
        /\ (last' # last /\ last'.op = "placeBid")
             => /\ last'.user \in Users /\ last'.user # auction.createdBy
                /\ \A i \in DOMAIN bids' :
                      (bids'[i].id > Len(bids) /\ bids'[i].id # last'.bidId)
                      => \E k \in DOMAIN bids :
                             /\ bids[k].userId = bids'[i].userId
                             /\ ~bids[k].isRetracted
        /\ \A q \in BidRequests :
             (auction # NoAuction /\ q.userId \in {auction.createdBy, UnknownUser})
             => ~PlaceBidBody(auction, bids, now, q.userId, q.amount,
                              q.maxBid, q.autoBidStep).ok ]_vars

\* a proxy bid was accepted together with an auto-bid recorded for the
\* competitor it outbid
C30_Witness ==
    /\ last.op = "placeBid" /\ last.bidId >= 3
    /\ \E i, k \in DOMAIN bids :
          /\ bids[i].id = last.bidId - 1 /\ bids[i].userId # last.user
          /\ bids[i].timestamp = bids[k].timestamp /\ bids[k].id = last.bidId
          /\ bids[i].isProxyBid /\ bids[i].isMaxBidReached

\* C31: endAuction on an auction that is already ENDED or UNSOLD is a no-op
\* (status, winnerId, currentPrice and the bids stay as they were), so
\* ending an auction twice has the same effect as ending it once
C31_EndAuctionIdempotent ==
    [][ /\ (/\ auction # NoAuction /\ auction.status \in {"ENDED", "UNSOLD"}
             /\ last'.op \in {"endAuction", "schedulerTick", "runFailSafe"})
            => auction' = auction /\ bids' = bids
        /\ (auction # NoAuction /\ EndError(auction) = "OK")
            => /\ endAuction(endAuction(auction, bids), bids) = endAuction(auction, bids)
               /\ auction.status \in {"ENDED", "UNSOLD"}
                    => endAuction(auction, bids) = auction ]_vars

\* endAuction was called on an auction that selectWinner had closed in
\* favour of a bidder who is not the top bidder: the winner is kept
C31_Witness ==
    /\ auction # NoAuction /\ auction.status = "ENDED"
    /\ last.op = "endAuction"
    /\ auction.winnerId # determineWinner(bids)

\* C32: a bid whose amount equals the auction's still-available buyNowPrice
\* ends the auction at once: when placeBid returns, status is ENDED,
\* winnerId is the bidder and currentPrice is buyNowPrice, whatever the
\* reserve
C32_BuyNowBidEndsAuction ==
    [][ (/\ last' # last /\ last'.op = "placeBid"
         /\ auction.buyNowPrice # Null
         /\ \E i \in DOMAIN bids' : /\ bids'[i].id = last'.bidId
                                      /\ bids'[i].amount = auction.buyNowPrice)
        => /\ auction'.status = "ENDED"
           /\ auction'.winnerId = last'.user
           /\ auction'.currentPrice = auction.buyNowPrice ]_vars

\* C33: placeBid, retractBid, startAuction, endAuction and selectWinner
\* change the auction and its bids only while holding the auction's keyed
\* lock; none of them changes anything while another operation holds an
\* unexpired lock on the auction
C33_MutationsUnderLock ==
    [][ (auction' # auction \/ bids' # bids)
        => /\ \E i \in DOMAIN callers :
                 /\ callers[i].pc = "acquired" /\ callers'[i].pc = "ran"
                 /\ locks[callers[i].key].isLocked
                 /\ now - locks[callers[i].key].acquiredAt < locks[callers[i].key].timeout
           /\ ~\E j \in DOMAIN callers :
                 /\ callers[j].pc = "holding"
                 /\ locks[AuctionKey].isLocked
                 /\ locks[AuctionKey].acquiredAt = callers[j].wake - TestLockHold
                 /\ now - locks[AuctionKey].acquiredAt < locks[AuctionKey].timeout ]_vars

\* C34: when endAuction moves an auction to ENDED and a non-retracted bid
\* exists, winnerId is the userId of the bid marked isWinning, which is the
\* highest-amount, earliest-timestamp non-retracted bid: the winner by sort
\* order and the stored flag do not disagree
C34_WinnerIsFlaggedBid ==
    [][ (/\ auction # NoAuction /\ auction.status = "ACTIVE"
         /\ auction'.status = "ENDED"
         /\ last'.op \in {"endAuction", "schedulerTick", "runFailSafe"}
         /\ Len(getBidsForAuction(bids)) > 0)
        => LET live == getBidsForAuction(bids)
           IN  /\ auction'.winnerId = live[1].userId
               /\ \A k \in DOMAIN live :
                     /\ live[1].amount >= live[k].amount
                     /\ live[1].amount = live[k].amount
                          => live[1].timestamp <= live[k].timestamp
               /\ live[1].isWinning
               /\ \A k \in DOMAIN live : live[k].isWinning => k = 1 ]_vars

\* C35: a scheduler tick ends an ACTIVE auction only if hasTimeLimit is
\* true and now >= endTime: an auction created with hasTimeLimit = false is
\* never ended by a tick, and none is ended by a tick before its endTime
C35_TickEndsOnlyTimeLimited ==
    [][ (/\ last' # last /\ last'.op = "schedulerTick"
         /\ auction.status = "ACTIVE"
         /\ auction'.status \in {"ENDED", "UNSOLD"})
        => auction.hasTimeLimit /\ now >= auction.endTime ]_vars

\* C36: AUCTION_ENDING_SOON is emitted only on a tick where the auction is
\* ACTIVE with 0 < endTime - now <= 300 s, and two emissions for the auction
\* are at least 30 s apart
C36_EndingSoonWindowAndThrottle ==
    [][ (lastEndingSoon' # lastEndingSoon /\ lastEndingSoon' = now)
        => /\ auction.status = "ACTIVE"
           /\ 0 < auction.endTime - now
           /\ auction.endTime - now <= EndingSoonMs
           /\ lastEndingSoon # 0
                => now - lastEndingSoon >= NOTIFICATION_THROTTLE_MS ]_vars

C39_SufficientMaxNotTooLow ==
    (auction # NoAuction /\ validateAuctionState(auction, now) = "OK")
    => LET minimumBid == auction.currentPrice + getBidIncrement(auction.currentPrice)
           maxBids == {m \in {minimumBid, minimumBid + 1, 12000, 20000, 20500,
                               50000, MAX_BID} : m >= minimumBid /\ m <= MAX_BID}
       IN  \A u \in Bidders, m \in maxBids :
              PlaceBidBody(auction, bids, now, u, m, m, Null).err # "BID_TOO_LOW"

\* C40: a lock is released only by the caller that acquired it: when a
\* holder's lock has expired and another caller has acquired the key since,
\* the first holder's release on completion leaves the second caller's lock
\* in place, so that no further caller enters while the second is running
C40_ReleaseOnlyOwnLock ==
    [][ \A i \in DOMAIN callers :
          (/\ callers[i].pc = "ran" /\ callers'[i].pc = "done"
           /\ locks[callers[i].key].isLocked
           /\ locks[callers[i].key].acquiredAt # callers[i].ranAt)
          => locks'[callers[i].key] = locks[callers[i].key] ]_vars

====
